---- MODULE Spec2Model ----
(***************************************************************************)
(* Boot-session correlation engine of EasyBootManager:                     *)
(*   src/src/boot_session_tracker.py  (BootSession, BootSessionTracker)    *)
(*   src/src/log_manager.py           (LogManager, the operation ledger)   *)
(*   src/src/event_log_collector.py   (WindowsEventLogCollector)           *)
(*                                                                         *)
(* The machine has a boot timestamp that grows at every reboot.  Tracker   *)
(* processes start (BootSessionTracker.__init__), call the tracker's       *)
(* methods and exit; a reboot ends every process.  The persisted state is  *)
(* the session store file, the last-boot marker file and the ledger file.  *)
(* A process may also hold an event-log collector, which asks the          *)
(* event-log source (wevtutil) and parses what it prints, and which saves  *)
(* and loads the event snapshot files of the sessions.                     *)
(***************************************************************************)
EXTENDS Integers, Sequences, FiniteSets, TLC

VARIABLES
    bootTime,         \* psutil.boot_time() of the running machine
    sessions_file,    \* boot_sessions.json
    last_boot_file,   \* last_boot_time.txt
    ledger,           \* operations.jsonl, one record per line
    running,          \* running[p]: process p holds a BootSessionTracker
    sessions,         \* sessions[p]: self.sessions
    current_session,  \* current_session[p]: self.current_session
    current_boot_session_id, \* LogManager.current_boot_session_id of process p
    ret,              \* ret[p]: the last call of process p and what it returned
    faults,           \* I/O failures so far
    created,          \* created[t]: sessions created for boot timestamp t (history)
    collector,        \* collector[p]: the WindowsEventLogCollector of process p
    clock,            \* time.time(), in ticks since the first process started
    event_files       \* the files of the event_logs directory, last written last

vars == <<bootTime, sessions_file, last_boot_file, ledger,
          running, sessions, current_session, current_boot_session_id, ret,
          faults, created, collector, clock, event_files>>

(***************************************************************************)
(* Bounds of the model.                                                    *)
(***************************************************************************)
\* boot timestamps are 1..MaxBootTime, in ticks
MaxBootTime == 6
\* boot timestamps of the specification of correlation across a reboot
MaxBootTimeCorr == 2
\* I/O failures in one behaviour
MaxFaults == 1
\* strftime('%Y%m%d_%H%M%S') keeps whole seconds: ticks per second
TicksPerSecond == 2
\* pending operations recorded per session
MaxOps == 2
\* pending operations recorded per session where the store is filled
MaxOpsStore == 1
\* events attached per session
MaxEvents == 1
\* ledger records
MaxLedger == 1
\* lines of the ledger where the ledger is queried
MaxLedgerLines == 3
\* clock readings of the ledger's records are 1..MaxLogTime
MaxLogTime == 2
\* paragraphs in one output of the event-log source
MaxParagraphs == 2
\* sessions whose events are saved
MaxSnapshots == 6
\* time.time() is 0..MaxClock, in ticks of the file system's timestamps
MaxClock == 1

(***************************************************************************)
(* Program constants.                                                      *)
(***************************************************************************)
MAX_SESSIONS == 5
UNEXPECTED_SHUTDOWN == 41
EXPORT_COUNT == 1000
PROBE_COUNT == 1
BCD_ERROR_COUNT == 50
BOOT_EVENTS_PER_BOOT == 10
KEEP_FILES == 5

(***************************************************************************)
(* Values.                                                                 *)
(***************************************************************************)
\* Python's None for a string-valued field
Null == "<None>"
\* Optional object: <<>> is None, <<x>> is the object x
None == <<>>
Some(x) == <<x>>

Procs == {1, 2}

EntryA == "{A}"
EntryB == "{B}"

\* Python truthiness of an Optional[str]
Truthy(s) == s # Null /\ s # ""

Min(a, b) == IF a < b THEN a ELSE b
Max(a, b) == IF a > b THEN a ELSE b

(***************************************************************************)
(* BootSession                                                             *)
(***************************************************************************)
\* a comparison that always succeeds
verify_boot_success_Always(expected_entry, actual_entry) == TRUE

\* verify_boot_success: exact equality of the identifiers
verify_boot_success(expected_entry, actual_entry) == expected_entry = actual_entry

\* BootSession.__init__
BootSessionInit(session_id, boot_timestamp, previous_operations, actual_boot_entry, expected_boot_entry) ==
    [ session_id          |-> session_id,
      boot_timestamp      |-> boot_timestamp,
      previous_operations |-> previous_operations,
      actual_boot_entry   |-> actual_boot_entry,
      expected_boot_entry |-> expected_boot_entry,
      boot_match_status   |->
          IF Truthy(actual_boot_entry) /\ Truthy(expected_boot_entry)
          THEN (IF actual_boot_entry = expected_boot_entry
                THEN "MATCH" ELSE "MISMATCH")
          ELSE "UNKNOWN",
      diagnosis           |-> <<>>,
      event_logs          |-> <<>> ]

\* BootSession.to_dict: the JSON object written for a session
to_dict(s) ==
    [ session_id          |-> s.session_id,
      boot_timestamp      |-> s.boot_timestamp,
      previous_operations |-> s.previous_operations,
      actual_boot_entry   |-> s.actual_boot_entry,
      expected_boot_entry |-> s.expected_boot_entry,
      boot_match_status   |-> s.boot_match_status,
      diagnosis           |-> s.diagnosis,
      event_logs          |-> s.event_logs ]

\* the status left as the constructor computed it
from_dict_KeepComputed(data) ==
    [ BootSessionInit(data.session_id, data.boot_timestamp,
                      data.previous_operations,
                      data.actual_boot_entry, data.expected_boot_entry)
      EXCEPT !.diagnosis  = data.diagnosis,
             !.event_logs = data.event_logs ]

\* BootSession.from_dict: the constructor computes a status from the two
\* entries, then status, diagnosis and events are overwritten from the data
from_dict(data) ==
    [ BootSessionInit(data.session_id, data.boot_timestamp,
                      data.previous_operations,
                      data.actual_boot_entry, data.expected_boot_entry)
      EXCEPT !.boot_match_status = data.boot_match_status,
             !.diagnosis         = data.diagnosis,
             !.event_logs        = data.event_logs ]

\* BootSession.has_event
has_event(s, event_id) ==
    \E i \in 1..Len(s.event_logs) : s.event_logs[i].event_id = event_id

\* session_id = f"boot_{boot_dt.strftime('%Y%m%d_%H%M%S')}": the timestamp
\* cut to whole seconds
SessionId(boot_timestamp) ==
    [ prefix |-> "boot_", seconds |-> boot_timestamp \div TicksPerSecond ]

(***************************************************************************)
(* Files                                                                   *)
(***************************************************************************)
AbsentFile == [ state |-> "absent", data |-> <<>> ]
CorruptFile == [ state |-> "corrupt", data |-> <<>> ]

\* str(boot_time) written to the marker file and float(text) read back
FormatFloat(t) == [ text |-> t ]
ParseFloat(s) == s.text

\* an outcome of a write: "ok", "unchanged" (the file could not be opened),
\* "corrupt" (opened and truncated, the write then failed)
WriteOutcomes == {"ok", "unchanged", "corrupt"}

\* I/O conditions of one call
Faults == [ probe : BOOLEAN, load : BOOLEAN, mread : BOOLEAN,
            mwrite : WriteOutcomes, save : WriteOutcomes ]
NoFaults == { [ probe |-> TRUE, load |-> TRUE, mread |-> TRUE,
                mwrite |-> "ok", save |-> "ok" ] }

\* the number of failures among the I/O conditions f
Cost(f) ==
    (IF f.probe THEN 0 ELSE 1) + (IF f.load THEN 0 ELSE 1)
    + (IF f.mread THEN 0 ELSE 1) + (IF f.mwrite = "ok" THEN 0 ELSE 1)
    + (IF f.save = "ok" THEN 0 ELSE 1)
WriteCost(outcome) == IF outcome = "ok" THEN 0 ELSE 1

\* the environment lets n more failures happen
Fail(n) == faults + n <= MaxFaults /\ faults' = faults + n

\* _load_sessions
LoadSessions(file, read_ok) ==
    IF file.state = "absent" THEN <<>>
    ELSE IF file.state = "json" /\ read_ok THEN [ i \in 1..Len(file.data) |-> from_dict(file.data[i]) ]
    ELSE <<>>

\* the first MAX_SESSIONS sessions in place of the last
SessionsToSave_First(sessList) ==
    IF Len(sessList) <= MAX_SESSIONS THEN sessList
    ELSE SubSeq(sessList, 1, MAX_SESSIONS)

\* self.sessions[-self.MAX_SESSIONS:]
SessionsToSave(sessList) ==
    IF Len(sessList) <= MAX_SESSIONS THEN sessList
    ELSE SubSeq(sessList, Len(sessList) - MAX_SESSIONS + 1, Len(sessList))

\* data = [session.to_dict() for session in sessions_to_save]
SessionDicts(sessList) == [ i \in 1..Len(sessList) |-> to_dict(sessList[i]) ]

\* a save that leaves an existing store as it is
SavedFile_KeepExisting(file, sessList, outcome) ==
    IF file.state = "json" THEN file
    ELSE [ state |-> "json", data |-> SessionDicts(SessionsToSave(sessList)) ]

\* the file after _save_sessions
SavedFile(file, sessList, outcome) ==
    CASE outcome = "ok"        -> [ state |-> "json",
                                    data |-> SessionDicts(SessionsToSave(sessList)) ]
      [] outcome = "unchanged" -> file
      [] outcome = "corrupt"   -> CorruptFile

\* self.sessions after _save_sessions: reassigned only when the write succeeded
SavedSessions(sessList, outcome) ==
    IF outcome = "ok" THEN SessionsToSave(sessList) ELSE sessList

\* the position of the object at position idx after _save_sessions
\* (0: the object is no longer in self.sessions)
SavedIndex(sessList, idx, outcome) ==
    IF outcome = "ok"
    THEN Max(0, idx - (Len(sessList) - Len(SessionsToSave(sessList))))
    ELSE idx

\* _load_last_boot_time
LoadLastBootTime(file, read_ok) ==
    IF file.state = "absent" THEN None
    ELSE IF file.state = "text" /\ read_ok THEN Some(ParseFloat(file.data))
    ELSE None

\* the marker never written
SavedLastBootTime_Skip(file, boot_time, outcome) == file

\* the file after _save_last_boot_time
SavedLastBootTime(file, boot_time, outcome) ==
    CASE outcome = "ok"        -> [ state |-> "text", data |-> FormatFloat(boot_time) ]
      [] outcome = "unchanged" -> file
      [] outcome = "corrupt"   -> CorruptFile

(***************************************************************************)
(* self.current_session: None, or the object with its position in          *)
(* self.sessions (idx = 0 when the object is not an element of the list).  *)
(***************************************************************************)
Ref(idx, obj) == Some([ idx |-> idx, obj |-> obj ])
HasCurrent(p) == current_session[p] # None
Current(p) == current_session[p][1].obj
CurrentIdx(p) == current_session[p][1].idx

\* the first session of the list replaced as well
WithObj_First(sessList, idx, obj) ==
    IF idx = 0 THEN sessList ELSE [ sessList EXCEPT ![idx] = obj, ![1] = obj ]

\* the list with the object at position idx replaced (the list holds references)
WithObj(sessList, idx, obj) ==
    IF idx = 0 THEN sessList ELSE [ sessList EXCEPT ![idx] = obj ]

\* no call made yet
NoCall == [ op |-> "none", arg |-> None, ok |-> FALSE, isNew |-> FALSE,
            session |-> None ]

\* the comparison with >= in place of >
IsNewBoot_Geq(current_boot_time, last_boot_time) ==
    last_boot_time = None \/ current_boot_time >= last_boot_time[1]

\* the comparison with # in place of >
IsNewBoot_Neq(current_boot_time, last_boot_time) ==
    last_boot_time = None \/ current_boot_time # last_boot_time[1]

\* last_boot_time is None or current_boot_time > last_boot_time
IsNewBoot(current_boot_time, last_boot_time) ==
    last_boot_time = None \/ current_boot_time > last_boot_time[1]

BootTimes == 1..Max(MaxBootTime, MaxBootTimeCorr)

\* one more session created for boot timestamp t (counted up to 2)
Count(isNew, t) ==
    created' = IF isNew THEN [created EXCEPT ![t] = Min(@ + 1, 2)] ELSE created

TypeOK ==
    /\ bootTime \in BootTimes
    /\ faults \in 0..MaxFaults
    /\ running \in [Procs -> BOOLEAN]
    /\ sessions_file.state \in {"absent", "json", "corrupt"}
    /\ last_boot_file.state \in {"absent", "text", "corrupt"}

Init ==
    /\ bootTime = 1
    /\ sessions_file = AbsentFile
    /\ last_boot_file = AbsentFile
    /\ ledger = <<>>
    /\ running = [p \in Procs |-> FALSE]
    /\ sessions = [p \in Procs |-> <<>>]
    /\ current_session = [p \in Procs |-> None]
    /\ current_boot_session_id = [p \in Procs |-> None]
    /\ ret = [p \in Procs |-> NoCall]
    /\ faults = 0
    /\ created = [t \in BootTimes |-> 0]
    /\ collector = [p \in Procs |-> None]
    /\ clock = 0
    /\ event_files = <<>>

(***************************************************************************)
(* BootSessionTracker                                                      *)
(***************************************************************************)
\* _detect_new_boot on the list sessList under the I/O conditions f: the new
\* self.sessions, the returned session and the two files
DetectNewBoot(sessList, f) ==
    LET same == [ sessions |-> sessList, current |-> None, isNew |-> FALSE,
                  sfile |-> sessions_file, mfile |-> last_boot_file ]
        last_boot_time == LoadLastBootTime(last_boot_file, f.mread)
    IN  IF ~f.probe THEN same   \* psutil.boot_time() raised
        ELSE IF IsNewBoot(bootTime, last_boot_time)
        THEN LET session  == BootSessionInit(SessionId(bootTime), bootTime,
                                             <<>>, Null, Null)
                 appended == Append(sessList, session)
             IN  [ sessions |-> SavedSessions(appended, f.save),
                   current  |-> Ref(SavedIndex(appended, Len(appended), f.save),
                                    session),
                   isNew    |-> TRUE,
                   sfile    |-> SavedFile(sessions_file, appended, f.save),
                   mfile    |-> SavedLastBootTime(last_boot_file, bootTime,
                                                  f.mwrite) ]
        ELSE [ same EXCEPT !.current =
                   IF sessList # <<>>
                   THEN Ref(Len(sessList), sessList[Len(sessList)])
                   ELSE None ]

\* a call with its arguments and whether it took effect
Called(op, arg, ok) ==
    [ op |-> op, arg |-> arg, ok |-> ok, isNew |-> FALSE, session |-> None ]

\* the session a call returned, as a value
Returned(op, cur, isNew) ==
    [ op |-> op, arg |-> None, ok |-> cur # None, isNew |-> isNew,
      session |-> IF cur = None THEN None ELSE Some(cur[1].obj) ]

\* BootSessionTracker.__init__: load the store, then detect
Start(p, F) ==
    /\ ~running[p]
    /\ \E f \in F :
         LET r == DetectNewBoot(LoadSessions(sessions_file, f.load), f)
         IN  /\ Fail(Cost(f))
             /\ running' = [running EXCEPT ![p] = TRUE]
             /\ sessions' = [sessions EXCEPT ![p] = r.sessions]
             /\ current_session' = [current_session EXCEPT ![p] = r.current]
             /\ sessions_file' = r.sfile
             /\ last_boot_file' = r.mfile
             /\ ret' = [ret EXCEPT ![p] = Returned("start", r.current, r.isNew)]
             /\ Count(r.isNew, bootTime)
    /\ UNCHANGED <<clock, event_files, collector, bootTime, ledger, current_boot_session_id>>

\* detect_boot_session
Detect(p, F) ==
    /\ running[p]
    /\ \E f \in F :
         IF current_session[p] = None
         THEN LET r == DetectNewBoot(sessions[p], f)
              IN  /\ Fail(Cost(f))
                  /\ sessions' = [sessions EXCEPT ![p] = r.sessions]
                  /\ current_session' = [current_session EXCEPT ![p] = r.current]
                  /\ sessions_file' = r.sfile
                  /\ last_boot_file' = r.mfile
                  /\ ret' = [ret EXCEPT ![p] = Returned("detect", r.current, r.isNew)]
                  /\ Count(r.isNew, bootTime)
         ELSE /\ f \in NoFaults
              /\ ret' = [ret EXCEPT ![p] = Returned("detect", current_session[p], FALSE)]
              /\ UNCHANGED <<sessions, current_session, sessions_file,
                             last_boot_file, faults, created>>
    /\ UNCHANGED <<clock, event_files, collector, bootTime, ledger, running, current_boot_session_id>>

\* _save_sessions of process p after the current object became obj
SaveWithCurrent(p, obj, outcome) ==
    LET idx  == CurrentIdx(p)
        list == WithObj(sessions[p], idx, obj)
    IN  /\ sessions' = [sessions EXCEPT ![p] = SavedSessions(list, outcome)]
        /\ current_session' = [current_session EXCEPT ![p] =
                                  Ref(SavedIndex(list, idx, outcome), obj)]
        /\ sessions_file' = SavedFile(sessions_file, list, outcome)
        /\ Fail(WriteCost(outcome))

\* operation_data of correlate_operation_to_boot
OperationData(operation_id, operation_type, target_entry, timestamp) ==
    [ operation_id   |-> operation_id,
      operation_type |-> operation_type,
      target_entry   |-> target_entry,
      timestamp      |-> timestamp ]

\* the operation inserted at the front of the list
AppendOperation_Front(s, operation_data) ==
    [ s EXCEPT !.previous_operations = <<operation_data>> \o @ ]

\* self.current_session.previous_operations.append(operation_data)
AppendOperation(s, operation_data) ==
    [ s EXCEPT !.previous_operations = Append(@, operation_data) ]

\* correlate_operation_to_boot with _save_sessions called outside the test of
\* self.current_session
RecordIntent_SaveAlways(p, Ops, Saves, maxOps) ==
    /\ running[p]
    /\ \E operation_data \in Ops, outcome \in Saves :
         IF HasCurrent(p)
         THEN /\ Len(Current(p).previous_operations) < maxOps
              /\ SaveWithCurrent(p, AppendOperation(Current(p), operation_data),
                                 outcome)
              /\ ret' = [ret EXCEPT ![p] =
                           Called("record", <<operation_data>>, TRUE)]
         ELSE /\ ret' = [ret EXCEPT ![p] =
                           Called("record", <<operation_data>>, FALSE)]
              /\ sessions' = [sessions EXCEPT ![p] =
                                 SavedSessions(sessions[p], outcome)]
              /\ sessions_file' = SavedFile(sessions_file, sessions[p], outcome)
              /\ Fail(WriteCost(outcome))
              /\ UNCHANGED current_session
    /\ UNCHANGED <<clock, event_files, collector, bootTime, last_boot_file, ledger, running,
                   current_boot_session_id, created>>

\* correlate_operation_to_boot
RecordIntent(p, Ops, Saves, maxOps) ==
    /\ running[p]
    /\ \E operation_data \in Ops, outcome \in Saves :
         IF HasCurrent(p)
         THEN /\ Len(Current(p).previous_operations) < maxOps
              /\ SaveWithCurrent(p, AppendOperation(Current(p), operation_data),
                                 outcome)
              /\ ret' = [ret EXCEPT ![p] =
                           Called("record", <<operation_data>>, TRUE)]
         ELSE /\ ret' = [ret EXCEPT ![p] =
                           Called("record", <<operation_data>>, FALSE)]
              /\ outcome = "ok" /\ UNCHANGED <<sessions, current_session, sessions_file, faults>>
    /\ UNCHANGED <<clock, event_files, collector, bootTime, last_boot_file, ledger, running,
                   current_boot_session_id, created>>

\* op['operation_type'] in ['BOOT_ONCE', 'SET_DEFAULT']
ProducesExpectation(op) == op.operation_type \in {"BOOT_ONCE", "SET_DEFAULT"}

\* the scan from the front of the list
LastQualifying_First(ops) ==
    LET Q == { i \in 1..Len(ops) : ProducesExpectation(ops[i]) }
    IN  IF Q = {} THEN 0 ELSE CHOOSE i \in Q : \A j \in Q : i <= j

\* for op in reversed(previous_operations): the first qualifying operation;
\* 0 when the loop ends without a break
LastQualifying(ops) ==
    LET Q == { i \in 1..Len(ops) : ProducesExpectation(ops[i]) }
    IN  IF Q = {} THEN 0 ELSE CHOOSE i \in Q : \A j \in Q : j <= i

\* the expected entry after lines 277-286 of update_current_session
ExpectedAfter(s, expected_boot_entry) ==
    IF Truthy(expected_boot_entry) THEN expected_boot_entry
    ELSE IF LastQualifying(s.previous_operations) # 0
         THEN s.previous_operations[LastQualifying(s.previous_operations)].target_entry
         ELSE s.expected_boot_entry

\* the fragments of a diagnosis
FragBootOnce == "Boot once may have been cleared or system crashed"
FragPermission == "Check operation logs for permission errors"
FragShutdown == "System experienced unexpected shutdown"
FragUnknown == "Boot entry mismatch - cause unknown"
Separator == " | "

\* " | ".join(parts): the text as the sequence of its pieces
RECURSIVE Join(_)
Join(parts) ==
    IF Len(parts) = 0 THEN <<>>
    ELSE IF Len(parts) = 1 THEN <<parts[1]>>
    ELSE <<parts[1], Separator>> \o Join(Tail(parts))

\* _generate_diagnosis with the permission fragment appended first
generate_diagnosis_PermissionFirst(s) ==
    LET boot_once_ops == { i \in 1..Len(s.previous_operations) :
                             s.previous_operations[i].operation_type = "BOOT_ONCE" }
        parts == <<FragPermission>>
                 \o (IF boot_once_ops # {} THEN <<FragBootOnce>> ELSE <<>>)
                 \o (IF has_event(s, UNEXPECTED_SHUTDOWN)
                     THEN <<FragShutdown>> ELSE <<>>)
    IN  IF parts = <<>> THEN <<FragUnknown>> ELSE Join(parts)

\* _generate_diagnosis for the current session s
generate_diagnosis(s) ==
    LET boot_once_ops == { i \in 1..Len(s.previous_operations) :
                             s.previous_operations[i].operation_type = "BOOT_ONCE" }
        parts == (IF boot_once_ops # {} THEN <<FragBootOnce>> ELSE <<>>)
                 \o <<FragPermission>>
                 \o (IF has_event(s, UNEXPECTED_SHUTDOWN)
                     THEN <<FragShutdown>> ELSE <<>>)
    IN  IF parts = <<>> THEN <<FragUnknown>> ELSE Join(parts)

\* the current session after lines 275-298 of update_current_session
Resolved(s, actual_boot_entry, expected_boot_entry) ==
    LET s1 == [ s EXCEPT !.actual_boot_entry = actual_boot_entry,
                         !.expected_boot_entry =
                             ExpectedAfter(s, expected_boot_entry) ]
    IN  IF Truthy(s1.actual_boot_entry) /\ Truthy(s1.expected_boot_entry)
        THEN IF verify_boot_success(s1.expected_boot_entry, s1.actual_boot_entry)
             THEN [ s1 EXCEPT !.boot_match_status = "MATCH" ]
             ELSE LET s2 == [ s1 EXCEPT !.boot_match_status = "MISMATCH" ]
                  IN  [ s2 EXCEPT !.diagnosis = generate_diagnosis(s2) ]
        ELSE s1

\* update_current_session
ResolveOutcome(p, Actuals, Expecteds, Saves) ==
    /\ running[p]
    /\ \E actual_boot_entry \in Actuals, expected_boot_entry \in Expecteds,
          outcome \in Saves :
         /\ ret' = [ret EXCEPT ![p] =
                      Called("resolve",
                             <<actual_boot_entry, expected_boot_entry>>,
                             HasCurrent(p))]
         /\ IF HasCurrent(p)
            THEN SaveWithCurrent(p, Resolved(Current(p), actual_boot_entry,
                                             expected_boot_entry), outcome)
            ELSE outcome = "ok" /\ UNCHANGED <<sessions, current_session, sessions_file, faults>>
    /\ UNCHANGED <<clock, event_files, collector, bootTime, last_boot_file, ledger, running,
                   current_boot_session_id, created>>

\* BootSession.add_event_log
add_event_log(s, event_data) ==
    [ s EXCEPT !.event_logs = Append(@, event_data) ]

\* add_event_to_current_session
AddEvent(p, Events, Saves) ==
    /\ running[p]
    /\ \E event_data \in Events, outcome \in Saves :
         /\ ret' = [ret EXCEPT ![p] =
                      Called("event", <<event_data>>, HasCurrent(p))]
         /\ IF HasCurrent(p)
            THEN /\ Len(Current(p).event_logs) < MaxEvents
                 /\ SaveWithCurrent(p, add_event_log(Current(p), event_data),
                                    outcome)
            ELSE outcome = "ok" /\ UNCHANGED <<sessions, current_session, sessions_file, faults>>
    /\ UNCHANGED <<clock, event_files, collector, bootTime, last_boot_file, ledger, running,
                   current_boot_session_id, created>>

(***************************************************************************)
(* LogManager                                                              *)
(***************************************************************************)
\* LogEntry.to_dict of the entry log_user_action builds
UserActionEntry(timestamp, operation_id, boot_session_id) ==
    [ timestamp       |-> timestamp,
      log_level       |-> "INFO",
      category        |-> "USER_ACTION",
      operation_id    |-> operation_id,
      boot_session_id |-> boot_session_id,
      message         |-> "action",
      details         |-> <<>> ]

\* json.dump of a dict: one line of text that holds a JSON object
json_dumps(data) == [json |-> "object", data |-> data]

\* _write_operation_log with mode 'w' in place of 'a'
write_operation_log_Truncate(log, entry, write_ok) ==
    IF write_ok THEN <<json_dumps(entry)>> ELSE log

\* _write_operation_log: one more line at the end of the ledger
write_operation_log(log, entry, write_ok) ==
    IF write_ok THEN Append(log, json_dumps(entry)) ELSE log

\* log_user_action
LogUserAction(p, Times, Writes) ==
    /\ running[p]
    /\ Len(ledger) < MaxLedger
    /\ \E timestamp \in Times, write_ok \in Writes :
         /\ ledger' = write_operation_log(ledger,
                          UserActionEntry(timestamp, Len(ledger) + 1,
                                          current_boot_session_id[p]),
                          write_ok)
         /\ ret' = [ret EXCEPT ![p] =
                      Called("log", <<timestamp>>, TRUE)]
    /\ UNCHANGED <<clock, event_files, collector, bootTime, sessions_file, last_boot_file, running, sessions,
                   current_session, current_boot_session_id, faults, created>>

\* the result of a call that returns a value
Answered(op, arg, value) ==
    [ op |-> op, arg |-> arg, ok |-> TRUE, isNew |-> FALSE, session |-> None,
      value |-> value ]

\* set_boot_session_id
SetBootSessionId(p, Ids) ==
    /\ running[p]
    /\ \E session_id \in Ids :
         /\ current_boot_session_id' =
                [current_boot_session_id EXCEPT ![p] = session_id]
         /\ ret' = [ret EXCEPT ![p] = Called("set_id", <<session_id>>, TRUE)]
    /\ UNCHANGED <<clock, event_files, collector, bootTime, sessions_file, last_boot_file, ledger, running,
                   sessions, current_session, faults, created>>

\* LogEntry.to_dict of the entry a log_* method builds: the category is fixed
\* by the method, the level by the method and the logged result
EntryOf(method, timestamp, operation_id, boot_session_id) ==
    [ timestamp       |-> timestamp,
      log_level       |-> IF method.name = "log_error" \/ ~method.success
                          THEN "ERROR" ELSE "INFO",
      category        |-> CASE method.name = "log_user_action" -> "USER_ACTION"
                            [] method.name = "log_bcd_operation" -> "BCD_OPERATION"
                            [] method.name = "log_backup_operation" -> "BACKUP_OPERATION"
                            [] method.name = "log_error" -> "ERROR"
                            [] OTHER -> "INFO",
      operation_id    |-> operation_id,
      boot_session_id |-> boot_session_id,
      message         |-> method.name,
      details         |-> <<>> ]

\* log_user_action, log_bcd_operation, log_backup_operation, log_error, log_info
LogOperation(p, Methods, Times, Writes) ==
    /\ running[p]
    /\ Len(ledger) < MaxLedgerLines
    /\ \E method \in Methods, timestamp \in Times, write_ok \in Writes :
         /\ ledger' = write_operation_log(ledger,
                          EntryOf(method, timestamp, Len(ledger) + 1,
                                  current_boot_session_id[p]),
                          write_ok)
         /\ ret' = [ret EXCEPT ![p] =
                      Called(method.name, <<timestamp>>, TRUE)]
    /\ UNCHANGED <<clock, event_files, collector, bootTime, sessions_file, last_boot_file, running, sessions,
                   current_session, current_boot_session_id, faults, created>>

\* the keys LogEntry.from_dict reads with data[...]
RequiredFields ==
    {"timestamp", "log_level", "category", "operation_id", "message"}

\* json.loads(line.strip()) followed by LogEntry.from_dict(data): the entry is
\* built ("entry") or one of the two raises
LineOutcome(line) ==
    IF line.json = "invalid" THEN "JSONDecodeError"
    ELSE IF line.json # "object" THEN "TypeError"
    ELSE IF ~(RequiredFields \subseteq DOMAIN line.data) THEN "KeyError"
    ELSE "entry"

\* LogEntry.from_dict
LogEntry_from_dict(data) ==
    [ timestamp       |-> data.timestamp,
      log_level       |-> data.log_level,
      category        |-> data.category,
      operation_id    |-> data.operation_id,
      boot_session_id |-> IF "boot_session_id" \in DOMAIN data
                          THEN data.boot_session_id ELSE None,
      message         |-> data.message,
      details         |-> IF "details" \in DOMAIN data
                          THEN data.details ELSE <<>> ]

\* the place of an entry in a list sorted ascending by timestamp: behind the
\* entries that are not later than it (sorted() is stable)
RECURSIVE InsertByTimestamp(_, _)
InsertByTimestamp(entry, sortedEntries) ==
    IF sortedEntries = <<>> THEN <<entry>>
    ELSE IF Head(sortedEntries).timestamp <= entry.timestamp
         THEN <<Head(sortedEntries)>>
              \o InsertByTimestamp(entry, Tail(sortedEntries))
         ELSE <<entry>> \o sortedEntries

\* the entries as they are, unsorted
SortedByTimestamp_Unsorted(entries) ==
    entries

\* sorted(entries, key=lambda x: x.timestamp)
RECURSIVE SortedByTimestamp(_)
SortedByTimestamp(entries) ==
    IF entries = <<>> THEN <<>>
    ELSE InsertByTimestamp(entries[Len(entries)],
                           SortedByTimestamp(SubSeq(entries, 1, Len(entries) - 1)))

\* lines 345-357 of get_recent_logs from line i down, entries collected so far
RECURSIVE RecentFrom(_, _, _, _, _)
RecentFrom(lines, i, entries, count, category) ==
    IF i = 0 \/ Len(entries) >= count
    THEN [raised |-> FALSE, entries |-> entries]
    ELSE LET outcome == LineOutcome(lines[i])
         IN  IF outcome = "JSONDecodeError"
             THEN RecentFrom(lines, i - 1, entries, count, category)
             ELSE IF outcome # "entry"
             THEN [raised |-> TRUE, entries |-> entries]
             ELSE LET entry == LogEntry_from_dict(lines[i].data)
                  IN  RecentFrom(lines, i - 1,
                                 IF category = Null \/ entry.category = category
                                 THEN Append(entries, entry) ELSE entries,
                                 count, category)

\* get_recent_logs: what it returns
get_recent_logs(log, count, category, read_ok) ==
    LET scan == RecentFrom(log, Len(log), <<>>, count, category)
    IN  IF ~read_ok \/ scan.raised THEN <<>> ELSE scan.entries

\* get_recent_logs
GetRecentLogs(p, Counts, Categories, Reads) ==
    /\ running[p]
    /\ \E count \in Counts, category \in Categories, read_ok \in Reads :
         ret' = [ret EXCEPT ![p] =
                   Answered("recent", <<count, category>>,
                            get_recent_logs(ledger, count, category, read_ok))]
    /\ UNCHANGED <<clock, event_files, collector, bootTime, sessions_file, last_boot_file, ledger, running,
                   sessions, current_session, current_boot_session_id, faults,
                   created>>

\* lines 381-389 of get_logs_by_session from line i up, entries collected so far
RECURSIVE SessionFrom(_, _, _, _)
SessionFrom(lines, i, entries, session_id) ==
    IF i > Len(lines)
    THEN [raised |-> FALSE, entries |-> entries]
    ELSE LET outcome == LineOutcome(lines[i])
         IN  IF outcome = "JSONDecodeError"
             THEN SessionFrom(lines, i + 1, entries, session_id)
             ELSE IF outcome # "entry"
             THEN [raised |-> TRUE, entries |-> entries]
             ELSE LET entry == LogEntry_from_dict(lines[i].data)
                  IN  SessionFrom(lines, i + 1,
                                  IF entry.boot_session_id = session_id
                                  THEN Append(entries, entry) ELSE entries,
                                  session_id)

\* get_logs_by_session: what it returns
get_logs_by_session(log, session_id, read_ok) ==
    LET scan == SessionFrom(log, 1, <<>>, session_id)
    IN  IF ~read_ok \/ scan.raised THEN <<>>
        ELSE SortedByTimestamp(scan.entries)

\* get_logs_by_session
GetLogsBySession(p, Ids, Reads) ==
    /\ running[p]
    /\ \E session_id \in Ids, read_ok \in Reads :
         ret' = [ret EXCEPT ![p] =
                   Answered("by_session", <<session_id>>,
                            get_logs_by_session(ledger, session_id, read_ok))]
    /\ UNCHANGED <<clock, event_files, collector, bootTime, sessions_file, last_boot_file, ledger, running,
                   sessions, current_session, current_boot_session_id, faults,
                   created>>

\* export_logs to a file other than the ledger: the value is what the export
\* file holds afterwards (nothing when the write failed)
ExportLogs(p, Reads, Writes) ==
    /\ running[p]
    /\ \E read_ok \in Reads, write_ok \in Writes :
         ret' = [ret EXCEPT ![p] =
                   [ Answered("export", <<>>,
                              IF write_ok
                              THEN get_recent_logs(ledger, EXPORT_COUNT, Null,
                                                   read_ok)
                              ELSE <<>>)
                     EXCEPT !.ok = write_ok ]]
    /\ UNCHANGED <<clock, event_files, collector, bootTime, sessions_file, last_boot_file, ledger, running,
                   sessions, current_session, current_boot_session_id, faults,
                   created>>

\* lines that no log_* method writes: text that is not JSON, JSON that is not
\* an object, an object without the required keys
InvalidLine == [json |-> "invalid", data |-> [text |-> "{\"timestamp\": 1, "]]
ArrayLine == [json |-> "array", data |-> [text |-> "[]"]]
PartialObjectLine == [json |-> "object", data |-> [timestamp |-> 1]]

\* the ledger file gets a line from outside the log_* methods (a write cut
\* short, another writer, an editor)
ForeignLine(Lines) ==
    /\ Len(ledger) < MaxLedgerLines
    /\ \E line \in Lines : ledger' = Append(ledger, line)
    /\ UNCHANGED <<clock, event_files, collector, bootTime, sessions_file, last_boot_file, running, sessions,
                   current_session, current_boot_session_id, ret, faults,
                   created>>

(***************************************************************************)
(* WindowsEventLogCollector                                                *)
(***************************************************************************)
\* Python's None where an EventLogEntry is expected
PyNone == [py |-> "None"]

\* the lines of wevtutil's text output after line.strip(): an empty line, a
\* line with a ':' (split(':', 1), both parts stripped), a line without one
BlankLine == [kind |-> "blank", key |-> "", value |-> ""]
PairLine(key, value) == [kind |-> "pair", key |-> key, value |-> value]
TextLine == [kind |-> "text", key |-> "", value |-> ""]

\* event_data.get(key, default)
Get(event_data, key, default) ==
    IF key \in DOMAIN event_data THEN event_data[key] ELSE default

\* int(event_id_str) of the strings that are integer numerals
Numerals == ("0" :> 0) @@ ("12" :> 12) @@ ("41" :> 41) @@ ("6005" :> 6005)

\* datetime.strptime(date_str, fmt).timestamp() of the strings that match one
\* of the three formats: US with AM/PM, ISO, EU
Dates ==
    ("01/01/2024 12:00:01 AM" :> 1) @@ ("2024-01-01 00:00:02" :> 2)
        @@ ("01/01/2024 00:00:01" :> 1)

\* _parse_event_timestamp: the current time when no format matches
parse_event_timestamp(date_str, now) ==
    IF date_str \in DOMAIN Dates THEN Dates[date_str] ELSE now

\* _create_event_entry: None when int() raises
create_event_entry(event_data, log_name, now) ==
    LET event_id_str == Get(event_data, "Event ID", "0")
    IN  IF event_id_str \notin DOMAIN Numerals THEN PyNone
        ELSE [ event_id  |-> Numerals[event_id_str],
               timestamp |-> parse_event_timestamp(Get(event_data, "Date", ""), now),
               level     |-> Get(event_data, "Level", "Information"),
               source    |-> Get(event_data, "Source", log_name),
               message   |-> Get(event_data, "Description", "No description"),
               raw_data  |-> event_data ]

\* lines 197-213 of _parse_event_output from line i on: the events appended
\* and the event under construction
RECURSIVE ParseFrom(_, _, _, _, _, _)
ParseFrom(lines, i, current_event, events, log_name, now) ==
    IF i > Len(lines) THEN [events |-> events, current_event |-> current_event]
    ELSE IF lines[i].kind = "blank"
    THEN IF current_event # <<>>
         THEN ParseFrom(lines, i + 1, <<>>,
                        Append(events,
                               create_event_entry(current_event, log_name, now)),
                        log_name, now)
         ELSE ParseFrom(lines, i + 1, current_event, events, log_name, now)
    ELSE IF lines[i].kind = "pair"
    THEN ParseFrom(lines, i + 1,
                   (lines[i].key :> lines[i].value) @@ current_event,
                   events, log_name, now)
    ELSE ParseFrom(lines, i + 1, current_event, events, log_name, now)

\* _parse_event_output without lines 215-217
parse_event_output_NoFlush(output, log_name, now) ==
    ParseFrom(output, 1, <<>>, <<>>, log_name, now).events

\* _parse_event_output
parse_event_output(output, log_name, now) ==
    LET scan == ParseFrom(output, 1, <<>>, <<>>, log_name, now)
    IN  IF scan.current_event # <<>>
        THEN Append(scan.events,
                    create_event_entry(scan.current_event, log_name, now))
        ELSE scan.events

\* _check_permissions with the result of the probe ignored
check_permissions_Always(result) ==
    TRUE

\* _check_permissions: the probe command returned status 0
check_permissions(result) ==
    result.status = "ok"

\* _query_log with the status of the command ignored
query_log_AnyStatus(log_name, result, now) ==
    parse_event_output(result.stdout, log_name, now)

\* _query_log: the entries of the output when the command returned status 0,
\* nothing when it returned another status, timed out or could not be run
query_log(log_name, result, now) ==
    IF result.status = "ok"
    THEN parse_event_output(result.stdout, log_name, now)
    ELSE <<>>

\* the place of an event in a list sorted descending by timestamp: behind the
\* events that are not earlier than it (sort(reverse=True) is stable)
RECURSIVE InsertDescending(_, _)
InsertDescending(event, sortedEvents) ==
    IF sortedEvents = <<>> THEN <<event>>
    ELSE IF Head(sortedEvents).timestamp >= event.timestamp
         THEN <<Head(sortedEvents)>>
              \o InsertDescending(event, Tail(sortedEvents))
         ELSE <<event>> \o sortedEvents

\* events.sort(key=lambda x: x.timestamp, reverse=True)
RECURSIVE SortedDescending(_)
SortedDescending(events) ==
    IF events = <<>> THEN <<>>
    ELSE InsertDescending(events[Len(events)],
                          SortedDescending(SubSeq(events, 1, Len(events) - 1)))

\* events[:count]
Take(events, count) ==
    SubSeq(events, 1, Min(count, Len(events)))

\* lines 110-134 of collect_boot_events: the two queries were made and gave
\* the results system and application; None among the events makes
\* e.timestamp raise, and the handler of line 132 returns []
collect_boot_events(since_timestamp, max_events, system, application, now) ==
    LET events == query_log("System", system, now)
                  \o query_log("Application", application, now)
        raised == \E i \in 1..Len(events) : events[i] = PyNone
        since  == IF since_timestamp # None /\ since_timestamp[1] # 0
                  THEN SelectSeq(events,
                                 LAMBDA e : e.timestamp >= since_timestamp[1])
                  ELSE events
    IN  IF raised THEN <<>> ELSE Take(SortedDescending(since), max_events)

\* the identifiers get_system_boot_events keeps
BOOT_START_IDS == {6005, 6009, 12}

\* lines 337-345 of get_system_boot_events, from what collect_boot_events gave
system_boot_events(boot_events, boot_count) ==
    Take(SelectSeq(boot_events, LAMBDA e : e.event_id \in BOOT_START_IDS),
         boot_count)

\* lines 301-324 of get_bcd_error_events: the query was made and gave result
bcd_error_events(result, now) ==
    IF result.status = "ok"
    THEN parse_event_output(result.stdout, "System", now)
    ELSE <<>>

\* paragraphs of wevtutil's output: a boot event with every key, an unexpected
\* shutdown without source and description, a paragraph without identifier
\* and date, a paragraph whose identifier is not a number, a paragraph without
\* any key
ParBoot ==
    << PairLine("Event ID", "12"), PairLine("Date", "2024-01-01 00:00:02"),
       PairLine("Level", "Information"), PairLine("Source", "Kernel"),
       PairLine("Description", "boot") >>
ParShutdown ==
    << PairLine("Event ID", "41"), PairLine("Date", "01/01/2024 12:00:01 AM"),
       PairLine("Level", "Critical") >>
ParNoId == << TextLine, PairLine("Level", "Warning") >>
ParBadId ==
    << PairLine("Event ID", "abc"), PairLine("Date", "01/01/2024 00:00:01") >>
ParText == << TextLine >>
Paragraphs == {ParBoot, ParShutdown, ParNoId, ParBadId, ParText}

\* the text of some paragraphs: an empty line between two of them
RECURSIVE Render(_)
Render(pars) ==
    IF pars = <<>> THEN <<>>
    ELSE IF Len(pars) = 1 THEN pars[1]
    ELSE pars[1] \o <<BlankLine>> \o Render(Tail(pars))

\* what wevtutil prints for /c:count: at most count events
Outputs(count) ==
    { Render(pars) :
        pars \in UNION { [1..k -> Paragraphs] :
                           k \in 0..Min(count, MaxParagraphs) } }

\* subprocess.run of a wevtutil command: status 0 with its output, another
\* status, TimeoutExpired, another exception
Statuses == {"ok", "nonzero", "timeout", "error"}
Results(count) ==
    { [status |-> "ok", stdout |-> output] : output \in Outputs(count) }
        \cup { [status |-> "nonzero", stdout |-> ParBoot],
               [status |-> "timeout", stdout |-> <<>>],
               [status |-> "error", stdout |-> <<>>] }
ProbeResults == { [status |-> status, stdout |-> <<>>] : status \in Statuses }

\* a wevtutil command that was run, with what it gave
Command(log_name, count, result) ==
    [log_name |-> log_name, count |-> count, result |-> result]

\* the result of a call of the collector: the value returned and the wevtutil
\* commands the call ran
Ran(op, arg, value, commands) ==
    [ op |-> op, arg |-> arg, ok |-> TRUE, isNew |-> FALSE, session |-> None,
      value |-> value, commands |-> commands ]

\* the collector of process p
HasCollector(p) == collector[p] # None
Collector(p) == collector[p][1]

\* the caller holds the value the last collection returned
Holding(p) == ret[p].op \in {"collect", "bcd_errors", "system_boots"}

\* the caller is done with the value the last collection returned
Discard(p) ==
    /\ Holding(p)
    /\ ret' = [ret EXCEPT ![p] = Ran("done", <<>>, <<>>, <<>>)]
    /\ UNCHANGED <<clock, event_files, bootTime, sessions_file, last_boot_file, ledger, running,
                   sessions, current_session, current_boot_session_id, faults,
                   created, collector>>

\* WindowsEventLogCollector.__init__
NewCollector(p, Probes) ==
    /\ running[p]
    /\ ~HasCollector(p)
    /\ \E result \in Probes :
         /\ collector' = [collector EXCEPT ![p] =
                            Some([has_permission |-> check_permissions(result)])]
         /\ ret' = [ret EXCEPT ![p] =
                      Ran("new_collector", <<>>, <<>>,
                          <<Command("System", PROBE_COUNT, result)>>)]
    /\ UNCHANGED <<clock, event_files, bootTime, sessions_file, last_boot_file, ledger, running,
                   sessions, current_session, current_boot_session_id, faults,
                   created>>

\* collect_boot_events
CollectBootEvents(p, Sinces, Maxes, Clocks) ==
    /\ HasCollector(p)
    /\ ~Holding(p)
    /\ \E since_timestamp \in Sinces, max_events \in Maxes, now \in Clocks :
         IF ~Collector(p).has_permission
         THEN ret' = [ret EXCEPT ![p] =
                        Ran("collect", <<since_timestamp, max_events, now>>,
                            <<>>, <<>>)]
         ELSE \E system \in Results(max_events),
                 application \in Results(max_events \div 2) :
                ret' = [ret EXCEPT ![p] =
                          Ran("collect", <<since_timestamp, max_events, now>>,
                              collect_boot_events(since_timestamp, max_events,
                                                  system, application, now),
                              << Command("System", max_events, system),
                                 Command("Application", max_events \div 2,
                                         application) >>)]
    /\ UNCHANGED <<clock, event_files, bootTime, sessions_file, last_boot_file, ledger, running,
                   sessions, current_session, current_boot_session_id, faults,
                   created, collector>>

\* get_bcd_error_events
GetBcdErrorEvents(p, Clocks) ==
    /\ HasCollector(p)
    /\ ~Holding(p)
    /\ \E now \in Clocks :
         IF ~Collector(p).has_permission
         THEN ret' = [ret EXCEPT ![p] = Ran("bcd_errors", <<>>, <<>>, <<>>)]
         ELSE \E result \in Results(BCD_ERROR_COUNT) :
                ret' = [ret EXCEPT ![p] =
                          Ran("bcd_errors", <<>>,
                              bcd_error_events(result, now),
                              <<Command("System", BCD_ERROR_COUNT, result)>>)]
    /\ UNCHANGED <<clock, event_files, bootTime, sessions_file, last_boot_file, ledger, running,
                   sessions, current_session, current_boot_session_id, faults,
                   created, collector>>

\* get_system_boot_events
GetSystemBootEvents(p, BootCounts, Clocks) ==
    /\ HasCollector(p)
    /\ ~Holding(p)
    /\ \E boot_count \in BootCounts, now \in Clocks :
         LET max_events == boot_count * BOOT_EVENTS_PER_BOOT
         IN  IF ~Collector(p).has_permission
             THEN ret' = [ret EXCEPT ![p] =
                            Ran("system_boots", <<boot_count>>, <<>>, <<>>)]
             ELSE \E system \in Results(max_events),
                     application \in Results(max_events \div 2) :
                    ret' = [ret EXCEPT ![p] =
                              Ran("system_boots", <<boot_count>>,
                                  system_boot_events(
                                      collect_boot_events(None, max_events, system,
                                                          application, now),
                                      boot_count),
                                  << Command("System", max_events, system),
                                     Command("Application", max_events \div 2,
                                             application) >>)]
    /\ UNCHANGED <<clock, event_files, bootTime, sessions_file, last_boot_file, ledger, running,
                   sessions, current_session, current_boot_session_id, faults,
                   created, collector>>

\* EventLogEntry.to_dict
entry_to_dict(e) ==
    [ event_id  |-> e.event_id,
      timestamp |-> e.timestamp,
      level     |-> e.level,
      source    |-> e.source,
      message   |-> e.message,
      raw_data  |-> e.raw_data ]

\* EventLogEntry.from_dict, through EventLogEntry.__init__ (raw_data or {})
entry_from_dict(data) ==
    [ event_id  |-> data.event_id,
      timestamp |-> data.timestamp,
      level     |-> data.level,
      source    |-> data.source,
      message   |-> data.message,
      raw_data  |-> IF data.raw_data = PyNone THEN <<>> ELSE data.raw_data ]

\* the file {session_id}.json of the event_logs directory
SnapshotFile(session_id, mtime, state, events) ==
    [ session_id |-> session_id, mtime |-> mtime, state |-> state,
      events |-> events ]

\* the position of the file of session_id in the directory, 0 when absent
FileOf(files, session_id) ==
    IF \E i \in 1..Len(files) : files[i].session_id = session_id
    THEN CHOOSE i \in 1..Len(files) : files[i].session_id = session_id
    ELSE 0

\* the directory without the files at the positions D
RECURSIVE WithoutFrom(_, _, _)
WithoutFrom(files, D, i) ==
    IF i > Len(files) THEN <<>>
    ELSE (IF i \in D THEN <<>> ELSE <<files[i]>>) \o WithoutFrom(files, D, i + 1)
Without(files, D) == WithoutFrom(files, D, 1)

\* glob('boot_*.json')
Globbed(files) ==
    { i \in 1..Len(files) : files[i].session_id.prefix = "boot_" }

\* the sets of positions files[KEEP_FILES:] can be, files being the globbed
\* files sorted by st_mtime, newest first; files of equal st_mtime come in the
\* order glob yields them, which is any order
Removable(files) ==
    { D \in SUBSET Globbed(files) :
        /\ Cardinality(Globbed(files) \ D) = Min(Cardinality(Globbed(files)), KEEP_FILES)
        /\ \A i \in D, j \in Globbed(files) \ D : files[i].mtime <= files[j].mtime }

\* _cleanup_old_sessions: the directory after the unlink calls
cleanup_old_sessions(files, D) == Without(files, D)

\* the directory after open(file_path, 'w') and json.dump at time t: the file
\* is the one written last
Written(files, session_id, events, t, outcome) ==
    LET rest == Without(files, {FileOf(files, session_id)})
    IN  IF outcome = "unchanged" THEN files
        ELSE IF outcome = "corrupt"
        THEN Append(rest, SnapshotFile(session_id, t, "corrupt", <<>>))
        ELSE Append(rest, SnapshotFile(session_id, t, "json",
                          [ i \in 1..Len(events) |-> entry_to_dict(events[i]) ]))

\* load_events_for_session
load_events_for_session(files, session_id, read_ok) ==
    LET i == FileOf(files, session_id)
    IN  IF i = 0 THEN <<>>
        ELSE IF files[i].state = "json" /\ read_ok
        THEN [ k \in 1..Len(files[i].events) |-> entry_from_dict(files[i].events[k]) ]
        ELSE <<>>

\* save_events_for_session: the write, then the cleanup when the write succeeded
SaveEvents(p, Ids, EventLists, Writes) ==
    /\ HasCollector(p)
    /\ \E session_id \in Ids, events \in EventLists, outcome \in Writes :
         LET written == Written(event_files, session_id, events, clock, outcome)
         IN  /\ \A i \in 1..Len(event_files) :
                    event_files[i].session_id.seconds <= session_id.seconds
             /\ Fail(WriteCost(outcome))
             /\ IF outcome = "ok"
                THEN \E D \in Removable(written) :
                        event_files' = cleanup_old_sessions(written, D)
                ELSE event_files' = written
             /\ ret' = [ret EXCEPT ![p] =
                          Ran("save_events", <<session_id, events>>, <<>>, <<>>)]
    /\ UNCHANGED <<clock, bootTime, sessions_file, last_boot_file, ledger,
                   running, sessions, current_session, current_boot_session_id,
                   created, collector>>

\* load_events_for_session called
LoadEvents(p, Ids, Reads) ==
    /\ HasCollector(p)
    /\ \E session_id \in Ids, read_ok \in Reads :
         /\ Fail(IF read_ok THEN 0 ELSE 1)
         /\ ret' = [ret EXCEPT ![p] =
                      Ran("load_events", <<session_id>>,
                          load_events_for_session(event_files, session_id, read_ok),
                          <<>>)]
    /\ UNCHANGED <<clock, event_files, bootTime, sessions_file, last_boot_file,
                   ledger, running, sessions, current_session,
                   current_boot_session_id, created, collector>>

\* time passes
Tick(maxClock) ==
    /\ clock < maxClock
    /\ clock' = clock + 1
    /\ UNCHANGED <<event_files, bootTime, sessions_file, last_boot_file, ledger,
                   running, sessions, current_session, current_boot_session_id,
                   ret, faults, created, collector>>

\* a call that ended with an exception reaching the caller
Raised(op) ==
    [ op |-> op, arg |-> None, ok |-> FALSE, isNew |-> FALSE, session |-> None,
      raised |-> TRUE ]
Propagated(p) == "raised" \in DOMAIN ret[p]

\* BootSessionTracker.__init__ when os.makedirs(self.storage_dir) raises: the
\* call is outside every try block, the caller gets the exception and no tracker
StartRaises(p) ==
    /\ ~running[p]
    /\ Fail(1)
    /\ ret' = [ret EXCEPT ![p] = Raised("start")]
    /\ UNCHANGED <<clock, event_files, bootTime, sessions_file, last_boot_file,
                   ledger, running, sessions, current_session,
                   current_boot_session_id, created, collector>>

\* the process ends: its memory is gone
Exit(p) ==
    /\ running[p]
    /\ running' = [running EXCEPT ![p] = FALSE]
    /\ sessions' = [sessions EXCEPT ![p] = <<>>]
    /\ current_session' = [current_session EXCEPT ![p] = None]
    /\ current_boot_session_id' = [current_boot_session_id EXCEPT ![p] = None]
    /\ ret' = [ret EXCEPT ![p] = NoCall]
    /\ collector' = [collector EXCEPT ![p] = None]
    /\ UNCHANGED <<clock, event_files, bootTime, sessions_file, last_boot_file, ledger, faults,
                   created>>

\* the machine reboots: every process ends, the boot timestamp grows
Reboot(maxTime) ==
    /\ \E t \in (bootTime + 1)..maxTime : bootTime' = t
    /\ running' = [p \in Procs |-> FALSE]
    /\ sessions' = [p \in Procs |-> <<>>]
    /\ current_session' = [p \in Procs |-> None]
    /\ current_boot_session_id' = [p \in Procs |-> None]
    /\ ret' = [p \in Procs |-> NoCall]
    /\ collector' = [p \in Procs |-> None]
    /\ UNCHANGED <<clock, event_files, sessions_file, last_boot_file, ledger,
                   faults, created>>

\* the machine reboots after its clock was changed: the boot timestamp is any
\* other one
RebootAny(maxTime) ==
    /\ \E t \in (1..maxTime) \ {bootTime} : bootTime' = t
    /\ running' = [p \in Procs |-> FALSE]
    /\ sessions' = [p \in Procs |-> <<>>]
    /\ current_session' = [p \in Procs |-> None]
    /\ current_boot_session_id' = [p \in Procs |-> None]
    /\ ret' = [p \in Procs |-> NoCall]
    /\ collector' = [p \in Procs |-> None]
    /\ UNCHANGED <<clock, event_files, sessions_file, last_boot_file, ledger,
                   faults, created>>

(***************************************************************************)
(* Inputs                                                                  *)
(***************************************************************************)
Entries == {EntryA, EntryB}

\* operations a caller records
SomeOperations ==
    { OperationData("op", "BOOT_ONCE", EntryA, 0),
      OperationData("op", "SET_DEFAULT", EntryB, 0),
      OperationData("op", "TIMEOUT", EntryA, 0) }
OneOperation == { OperationData("op", "BOOT_ONCE", EntryA, 0) }

\* entries a caller passes to update_current_session
ActualInputs == {Null, "", EntryA, EntryB}
ExpectedInputs == {Null, "", EntryA, EntryB}

\* events a caller attaches
AllEvents == { [ event_id |-> UNEXPECTED_SHUTDOWN ], [ event_id |-> 12 ] }

(***************************************************************************)
(* Specifications                                                          *)
(***************************************************************************)
\* the detector and the store over several boots: one tracker process at a
\* time, no I/O failure, one kind of operation
Next ==
    \/ Reboot(MaxBootTime)
    \/ Start(1, NoFaults)
    \/ Detect(1, NoFaults)
    \/ RecordIntent(1, OneOperation, {"ok"}, MaxOpsStore)
    \/ Exit(1)

Spec == Init /\ [][Next]_vars

\* boot timestamps that do not grow
NextSkew ==
    \/ RebootAny(MaxBootTime)
    \/ Start(1, NoFaults)
    \/ Detect(1, NoFaults)
    \/ RecordIntent(1, OneOperation, {"ok"}, MaxOpsStore)
    \/ Exit(1)

SpecSkew == Init /\ [][NextSkew]_vars

\* the same, where reads, writes and the boot-time probe may fail
NextStoreFail ==
    \/ Reboot(MaxBootTime)
    \/ Start(1, Faults)
    \/ Detect(1, Faults)
    \/ RecordIntent(1, OneOperation, WriteOutcomes, MaxOpsStore)
    \/ Exit(1)

SpecStoreFail == Init /\ [][NextStoreFail]_vars

\* failures over a few boots, with the ledger
NextFail ==
    \/ Reboot(MaxBootTimeCorr)
    \/ Start(1, Faults)
    \/ Detect(1, Faults)
    \/ RecordIntent(1, OneOperation, WriteOutcomes, MaxOpsStore)
    \/ LogUserAction(1, {0}, BOOLEAN)
    \/ Exit(1)

SpecFail == Init /\ [][NextFail]_vars

\* correlation within one boot: every kind of operation, resolution and event
NextCorr ==
    \/ Start(1, NoFaults)
    \/ Detect(1, NoFaults)
    \/ RecordIntent(1, SomeOperations, {"ok"}, MaxOps)
    \/ ResolveOutcome(1, ActualInputs, ExpectedInputs, {"ok"})
    \/ AddEvent(1, AllEvents, {"ok"})
    \/ LogUserAction(1, {0}, {TRUE})
    \/ Exit(1)

SpecCorr == Init /\ [][NextCorr]_vars

\* correlation across a reboot
NextReboot ==
    \/ Reboot(MaxBootTimeCorr)
    \/ Start(1, NoFaults)
    \/ RecordIntent(1, SomeOperations, {"ok"}, MaxOps)
    \/ ResolveOutcome(1, Entries, {Null}, {"ok"})
    \/ Exit(1)

SpecReboot == Init /\ [][NextReboot]_vars

\* the log_* calls made
UserActions == { [name |-> "log_user_action", success |-> TRUE] }
SomeMethods ==
    { [name |-> "log_user_action", success |-> TRUE],
      [name |-> "log_bcd_operation", success |-> FALSE] }
\* clock readings of the log_* calls (the clock may be set back between calls)
LogTimes == 1..MaxLogTime
\* session identifiers passed to set_boot_session_id and get_logs_by_session
LedgerIds ==
    { None, Some(SessionId(TicksPerSecond)), Some(SessionId(2 * TicksPerSecond)) }
OneLedgerId == { None, Some(SessionId(TicksPerSecond)) }

\* the ledger written by log_* calls under several session identifiers, then
\* queried and exported
NextLedger ==
    \/ Start(1, NoFaults)
    \/ SetBootSessionId(1, LedgerIds)
    \/ LogOperation(1, UserActions, LogTimes, BOOLEAN)
    \/ GetRecentLogs(1, 1..MaxLedgerLines, {Null}, {TRUE})
    \/ GetLogsBySession(1, LedgerIds, {TRUE})
    \/ ExportLogs(1, {TRUE}, BOOLEAN)
    \/ Exit(1)

SpecLedger == Init /\ [][NextLedger]_vars

\* the same with several categories and with lines from outside the program
NextLedgerAny ==
    \/ Start(1, NoFaults)
    \/ SetBootSessionId(1, OneLedgerId)
    \/ LogOperation(1, SomeMethods, LogTimes, {TRUE})
    \/ ForeignLine({InvalidLine, ArrayLine, PartialObjectLine})
    \/ GetRecentLogs(1, 1..MaxLedgerLines, {Null, "USER_ACTION"}, {TRUE})
    \/ GetLogsBySession(1, OneLedgerId, {TRUE})
    \/ Exit(1)

SpecLedgerAny == Init /\ [][NextLedgerAny]_vars

\* arguments of collect_boot_events and get_system_boot_events, and the clock
Sinces == {None, Some(0), Some(2)}
Maxes == 1..MaxParagraphs
BootCounts == 1..MaxParagraphs
Clocks == {3}

\* one collector per process: the probe, then the three collections
NextCollect ==
    \/ Start(1, NoFaults)
    \/ NewCollector(1, ProbeResults)
    \/ CollectBootEvents(1, Sinces, Maxes, Clocks)
    \/ GetBcdErrorEvents(1, Clocks)
    \/ GetSystemBootEvents(1, BootCounts, Clocks)
    \/ Discard(1)
    \/ Exit(1)

SpecCollect == Init /\ [][NextCollect]_vars

\* one resolution and one event, for the runs over several boots
OneActual == {EntryB}
OneExpected == {EntryA}
OneEvent == { [ event_id |-> UNEXPECTED_SHUTDOWN ] }

\* the active session of process p, if any, is as detection created it
Untouched(p) ==
    HasCurrent(p) =>
        Current(p) = BootSessionInit(Current(p).session_id,
                                     Current(p).boot_timestamp, <<>>, Null, Null)

\* the whole life of the store: detections, evictions, and the calls that
\* change the active session, over several boots; each session is changed by
\* one call at most
NextLife ==
    \/ Reboot(MaxBootTime)
    \/ Start(1, NoFaults)
    \/ Detect(1, NoFaults)
    \/ Untouched(1) /\ RecordIntent(1, OneOperation, {"ok"}, MaxOpsStore)
    \/ Untouched(1) /\ ResolveOutcome(1, OneActual, OneExpected, {"ok"})
    \/ Untouched(1) /\ AddEvent(1, OneEvent, {"ok"})
    \/ Exit(1)

SpecLife == Init /\ [][NextLife]_vars

\* sessions whose events are saved, and the events
SnapshotIds == { SessionId(n * TicksPerSecond) : n \in 1..MaxSnapshots }
SavedEvent ==
    [ event_id |-> UNEXPECTED_SHUTDOWN, timestamp |-> 0, level |-> "Critical",
      source |-> "System", message |-> "No description", raw_data |-> <<>> ]
EventLists == { <<>>, <<SavedEvent>> }
\* the permission probe succeeds
OkProbe == { [status |-> "ok", stdout |-> <<>>] }

\* the snapshot files of the collector, saved and loaded while time passes
NextSnap ==
    \/ Start(1, NoFaults)
    \/ NewCollector(1, OkProbe)
    \/ SaveEvents(1, SnapshotIds, EventLists, {"ok"})
    \/ LoadEvents(1, SnapshotIds, {TRUE})
    \/ Tick(MaxClock)
    \/ Exit(1)

SpecSnap == Init /\ [][NextSnap]_vars

\* operations whose timestamp is any reading, before or after the clock's
StampedOperations ==
    { OperationData("op", "BOOT_ONCE", EntryA, t) : t \in 0..(MaxClock + 1) }

\* operations recorded within one boot while time passes
NextClock ==
    \/ Start(1, NoFaults)
    \/ Detect(1, NoFaults)
    \/ RecordIntent(1, StampedOperations, {"ok"}, MaxOps)
    \/ Tick(MaxClock)
    \/ Exit(1)

SpecClock == Init /\ [][NextClock]_vars

\* the operation the second process records
OtherOperation == { OperationData("op2", "SET_DEFAULT", EntryB, 0) }

\* two tracker processes in one boot on the same files; each call is one step
NextTwo ==
    \/ Start(1, NoFaults)
    \/ Start(2, NoFaults)
    \/ RecordIntent(1, OneOperation, {"ok"}, MaxOps)
    \/ RecordIntent(2, OtherOperation, {"ok"}, MaxOps)
    \/ ResolveOutcome(1, OneActual, OneExpected, {"ok"})
    \/ ResolveOutcome(2, OneActual, OneExpected, {"ok"})
    \/ Exit(1)
    \/ Exit(2)

SpecTwo == Init /\ [][NextTwo]_vars

\* the session whose events are saved under failures
OneSnapshotId == { SessionId(TicksPerSecond) }

\* every operation under I/O failures and failures of the external sources
NextHandled ==
    \/ Start(1, Faults)
    \/ StartRaises(1)
    \/ Detect(1, Faults)
    \/ RecordIntent(1, OneOperation, WriteOutcomes, MaxOpsStore)
    \/ ResolveOutcome(1, OneActual, OneExpected, WriteOutcomes)
    \/ LogUserAction(1, {0}, BOOLEAN)
    \/ GetRecentLogs(1, {1}, {Null}, BOOLEAN)
    \/ GetLogsBySession(1, OneLedgerId, BOOLEAN)
    \/ NewCollector(1, ProbeResults)
    \/ SaveEvents(1, OneSnapshotId, EventLists, WriteOutcomes)
    \/ LoadEvents(1, OneSnapshotId, BOOLEAN)
    \/ Exit(1)

SpecHandled == Init /\ [][NextHandled]_vars

(***************************************************************************)
(* Properties                                                              *)
(***************************************************************************)
\* the persisted marker, None when there is none
Marker == LoadLastBootTime(last_boot_file, TRUE)
\* the persisted session records
Stored == IF sessions_file.state = "json" THEN sessions_file.data ELSE <<>>
\* the last n elements of a sequence
LastN(seq, n) ==
    IF Len(seq) <= n THEN seq ELSE [ i \in 1..n |-> seq[Len(seq) - n + i] ]
Last(seq) == seq[Len(seq)]
\* a session as detection creates it for boot timestamp t
Fresh(t) ==
    [ session_id          |-> [ prefix |-> "boot_", seconds |-> t \div TicksPerSecond ],
      boot_timestamp      |-> t,
      previous_operations |-> <<>>,
      actual_boot_entry   |-> Null,
      expected_boot_entry |-> Null,
      boot_match_status   |-> "UNKNOWN",
      diagnosis           |-> <<>>,
      event_logs          |-> <<>> ]
\* process 1 starts in this step
StartStep == ~running[1] /\ running'[1]
\* process 1 calls detect_boot_session in this step
DetectStep == running[1] /\ ret'[1].op = "detect"

\* C1: a process start that finds no marker, or a marker older than the current
\* boot timestamp, creates a session with the identifier of that timestamp and
\* no pending operation, appends it to the store (in memory and persisted),
\* persists the timestamp as the marker and has the new session as the active one
C1_NewBootCreatesSession ==
    [][ (StartStep /\ (Marker = None \/ bootTime > Marker[1])) =>
          /\ ret'[1].isNew
          /\ ret'[1].session = Some(Fresh(bootTime))
          /\ current_session'[1] # None
          /\ current_session'[1][1].obj = Fresh(bootTime)
          /\ current_session'[1][1].idx = Len(sessions'[1])
          /\ sessions'[1] = LastN(Append(Stored, Fresh(bootTime)), MAX_SESSIONS)
          /\ sessions_file'.state = "json"
          /\ sessions_file'.data = LastN(Append(Stored, Fresh(bootTime)), MAX_SESSIONS)
          /\ last_boot_file'.state = "text"
          /\ ParseFloat(last_boot_file'.data) = bootTime ]_vars

\* C1 happens: a new boot was detected at a start that found a full store
C1_Witness ==
    /\ ret[1].op = "start" /\ ret[1].isNew
    /\ Len(sessions[1]) = MAX_SESSIONS
    /\ Last(sessions[1]).boot_timestamp = bootTime
    /\ Marker = Some(bootTime)
    /\ bootTime = MaxBootTime

InCreationOrder(seq) ==
    \A i, j \in 1..Len(seq) : i < j => seq[i].boot_timestamp <= seq[j].boot_timestamp

\* C4: the store holds at most MAX_SESSIONS sessions, in memory and persisted,
\* in creation order, also when a write of the store fails
C4_StoreAtMostFive ==
    /\ Len(Stored) <= MAX_SESSIONS
    /\ InCreationOrder(Stored)
    /\ \A p \in Procs :
          /\ Len(sessions[p]) <= MAX_SESSIONS
          /\ InCreationOrder(sessions[p])

\* process 1 calls correlate_operation_to_boot in this step
RecordStep == running[1] /\ ret'[1].op = "record"
\* the pending operations of the active session of process 1
Pending == current_session[1][1].obj.previous_operations

C6_RecordWithoutSession ==
    [][ (RecordStep /\ current_session[1] = None) =>
          /\ ~ret'[1].ok
          /\ sessions' = sessions
          /\ current_session' = current_session
          /\ sessions_file' = sessions_file
          /\ last_boot_file' = last_boot_file
          /\ ledger' = ledger ]_vars

\* C6 happens: a recording failed in a process that has no active session,
\* while the persisted store and the ledger hold records
C6_Witness ==
    /\ running[1] /\ current_session[1] = None
    /\ ret[1].op = "record" /\ ~ret[1].ok
    /\ Stored # <<>>
    /\ ledger # <<>>

\* the operation types that produce an expectation for the next boot
Expecting == {"BOOT_ONCE", "SET_DEFAULT"}
\* the positions of the operations of ops that produce an expectation
Qualifying(ops) == { i \in 1..Len(ops) : ops[i].operation_type \in Expecting }
\* the target of the latest such operation
LatestTarget(ops) ==
    ops[CHOOSE i \in Qualifying(ops) : \A j \in Qualifying(ops) : j <= i].target_entry
\* an entry that is known: neither absent nor empty
Known(e) == e # Null /\ e # ""
\* process 1 calls update_current_session in this step
ResolveStep == running[1] /\ ret'[1].op = "resolve"
\* the active session of process 1
Active == current_session[1][1].obj

\* C7: operations recorded in session S, then a reboot and a new session: the
\* observed entry, given without an expected entry, is matched against the
\* target of the latest BOOT_ONCE/SET_DEFAULT operation of S
C7_ResolvesAcrossReboot ==
    ( /\ running[1] /\ ret[1].op = "resolve" /\ ret[1].ok
      /\ Len(sessions[1]) >= 2
      /\ Active = Last(sessions[1])
      /\ Active.boot_timestamp = bootTime
      /\ Active.previous_operations = <<>>
      /\ Qualifying(sessions[1][Len(sessions[1]) - 1].previous_operations) # {}
      /\ Known(ret[1].arg[1]) /\ ~Known(ret[1].arg[2]) )
    => Active.boot_match_status =
          IF ret[1].arg[1] =
             LatestTarget(sessions[1][Len(sessions[1]) - 1].previous_operations)
          THEN "MATCH" ELSE "MISMATCH"

\* C8: a resolution sets the actual entry; a supplied expected entry becomes
\* the expected entry whatever the pending operations are; otherwise the
\* expected entry is the target of the latest pending BOOT_ONCE/SET_DEFAULT
\* operation, and without such an operation the expected entry stays as it was
C8_ResolveSetsEntries ==
    [][ (ResolveStep /\ current_session[1] # None) =>
          /\ current_session'[1] # None
          /\ Active'.actual_boot_entry = ret'[1].arg[1]
          /\ Active'.expected_boot_entry =
                 IF Known(ret'[1].arg[2]) THEN ret'[1].arg[2]
                 ELSE IF Qualifying(Pending) # {} THEN LatestTarget(Pending)
                 ELSE Active.expected_boot_entry
          /\ Pending' = Pending ]_vars

\* C8 happens: no expected entry was supplied and the expectation came from an
\* operation that is followed by another one of a different target
C8_Witness ==
    /\ ret[1].op = "resolve" /\ ret[1].ok /\ ~Known(ret[1].arg[2])
    /\ Len(Pending) = 2
    /\ Qualifying(Pending) = {1, 2}
    /\ Pending[1].target_entry # Pending[2].target_entry
    /\ Active.expected_boot_entry = Pending[2].target_entry
    /\ Active.actual_boot_entry = ret[1].arg[1]

\* the pieces of a text
Pieces(text) == { text[i] : i \in 1..Len(text) }

\* C9: after a resolution with both entries known the status is MATCH exactly
\* when the entries are equal and MISMATCH otherwise, and on MISMATCH the
\* diagnosis is not empty and contains the permission-errors fragment
C9_MatchIffEqual ==
    [][ (ResolveStep /\ current_session[1] # None) =>
          ((Known(Active'.actual_boot_entry) /\ Known(Active'.expected_boot_entry)) =>
             /\ Active'.boot_match_status \in {"MATCH", "MISMATCH"}
             /\ Active'.boot_match_status = "MATCH"
                   <=> Active'.actual_boot_entry = Active'.expected_boot_entry
             /\ Active'.boot_match_status = "MISMATCH" =>
                   /\ Active'.diagnosis # <<>>
                   /\ "Check operation logs for permission errors"
                         \in Pieces(Active'.diagnosis)) ]_vars

\* C9 happens: a resolution found different entries and stored a diagnosis
C9_Witness ==
    /\ ret[1].op = "resolve" /\ ret[1].ok
    /\ Known(Active.actual_boot_entry) /\ Known(Active.expected_boot_entry)
    /\ Active.actual_boot_entry # Active.expected_boot_entry
    /\ Active.boot_match_status = "MISMATCH"
    /\ Len(Active.diagnosis) >= 3

\* a session whose expected or actual entry is not known has status UNKNOWN
UnknownUntilBoth(s) ==
    (~Known(s.expected_boot_entry) \/ ~Known(s.actual_boot_entry))
        => s.boot_match_status = "UNKNOWN"

\* C10: every session, in memory or persisted, whose expected or actual entry
\* is not known has status UNKNOWN
C10_UnknownUntilBothKnown ==
    /\ \A i \in 1..Len(Stored) : UnknownUntilBoth(Stored[i])
    /\ \A p \in Procs :
          /\ \A i \in 1..Len(sessions[p]) : UnknownUntilBoth(sessions[p][i])
          /\ current_session[p] # None => UnknownUntilBoth(current_session[p][1].obj)

\* the session has a pending operation of type BOOT_ONCE
HasBootOnce(s) ==
    \E i \in 1..Len(s.previous_operations) :
        s.previous_operations[i].operation_type = "BOOT_ONCE"

\* the session has an attached event with the unexpected-shutdown identifier
HasShutdownEvent(s) ==
    \E i \in 1..Len(s.event_logs) : s.event_logs[i].event_id = 41

\* the fragments the diagnosis rules give for a session, joined in rule order
RuleText(s) ==
    (IF HasBootOnce(s)
     THEN <<"Boot once may have been cleared or system crashed", " | ">>
     ELSE <<>>)
    \o <<"Check operation logs for permission errors">>
    \o (IF HasShutdownEvent(s)
        THEN <<" | ", "System experienced unexpected shutdown">>
        ELSE <<>>)

\* C11: the diagnosis a resolution computes on MISMATCH is the boot-once
\* fragment (exactly when a pending operation is BOOT_ONCE), the
\* permission-errors fragment (always) and the unexpected-shutdown fragment
\* (exactly when an attached event has identifier 41), in this order and
\* joined with " | "; the "cause unknown" fallback is never produced
C11_DiagnosisIsRuleText ==
    [][ (ResolveStep /\ current_session[1] # None) =>
          ((/\ Known(Active'.actual_boot_entry)
            /\ Known(Active'.expected_boot_entry)
            /\ Active'.actual_boot_entry # Active'.expected_boot_entry) =>
               /\ Active'.boot_match_status = "MISMATCH"
               /\ Active'.diagnosis = RuleText(Active')
               /\ "Boot entry mismatch - cause unknown"
                     \notin Pieces(Active'.diagnosis)) ]_vars

\* C11 happens: a resolution found a mismatch on a session with a BOOT_ONCE
\* operation and an unexpected-shutdown event, and stored all three fragments
C11_Witness ==
    /\ ret[1].op = "resolve" /\ ret[1].ok
    /\ Active.boot_match_status = "MISMATCH"
    /\ Known(Active.actual_boot_entry) /\ Known(Active.expected_boot_entry)
    /\ Active.actual_boot_entry # Active.expected_boot_entry
    /\ HasBootOnce(Active) /\ HasShutdownEvent(Active)
    /\ Len(Active.diagnosis) = 5

\* C12: the ledger before any step is a prefix of the ledger after it: no
\* append, query or export rewrites, reorders or deletes a record
C12_LedgerAppendOnly ==
    [][ /\ Len(ledger') >= Len(ledger)
        /\ SubSeq(ledger', 1, Len(ledger)) = ledger ]_vars

\* C12 happens: records were appended, then queried, and an export wrote them
C12_Witness ==
    /\ Len(ledger) >= 2
    /\ ret[1].op = "export" /\ ret[1].ok
    /\ Len(ret[1].value) = Len(ledger)

\* a ledger line that is a JSON object with every field of a record
WellFormed(line) ==
    /\ line.json = "object"
    /\ {"timestamp", "log_level", "category", "operation_id", "message"}
          \subseteq DOMAIN line.data
\* the lines of the well-formed records of session identifier s
OfSession(s) ==
    { k \in 1..Len(ledger) :
        WellFormed(ledger[k]) /\ ledger[k].data.boot_session_id = s }
\* the lines of the well-formed records of a category (every one for Null)
OfCategory(category) ==
    { k \in 1..Len(ledger) :
        WellFormed(ledger[k])
          /\ (category = Null \/ ledger[k].data.category = category) }
\* a step that is a call of get_logs_by_session, of get_recent_logs
BySessionStep == running[1] /\ ret'[1].op = "by_session" /\ ledger' = ledger
RecentStep == running[1] /\ ret'[1].op = "recent" /\ ledger' = ledger

\* C13: get_logs_by_session(s) returns exactly the ledger records whose
\* session identifier is s (null included), ascending by timestamp, whatever
\* the order in which the records of the sessions were appended
C13_QueryBySession ==
    [][ BySessionStep =>
          LET r == ret'[1].value
              s == ret'[1].arg[1]
          IN  /\ Len(r) = Cardinality(OfSession(s))
              /\ \A k \in OfSession(s) :
                    \E i \in 1..Len(r) : r[i] = ledger[k].data
              /\ \A i, j \in 1..Len(r) :
                    i < j => r[i].timestamp <= r[j].timestamp ]_vars

\* C13 happens: the query returned two records that were appended in
\* descending order of timestamp, and left out a record of another session
C13_Witness ==
    /\ ret[1].op = "by_session"
    /\ Len(ret[1].value) = 2
    /\ \E i, j \in OfSession(ret[1].arg[1]) :
          i < j /\ ledger[i].data.timestamp > ledger[j].data.timestamp
    /\ \E k \in 1..Len(ledger) : k \notin OfSession(ret[1].arg[1])

\* C14: on a ledger of well-formed records get_recent_logs(limit, category)
\* returns at most limit records, all of the category when one is given, in
\* descending order of timestamp, and no matching record it leaves out is
\* more recent than one it returns
C14_RecentByTimestamp ==
    [][ (RecentStep /\ \A k \in 1..Len(ledger) : WellFormed(ledger[k])) =>
          LET r == ret'[1].value
              count == ret'[1].arg[1]
              category == ret'[1].arg[2]
          IN  /\ Len(r) = Min(count, Cardinality(OfCategory(category)))
              /\ \A i \in 1..Len(r) :
                    \E k \in OfCategory(category) : r[i] = ledger[k].data
              /\ \A i, j \in 1..Len(r) :
                    i < j => r[i].timestamp >= r[j].timestamp
              /\ \A k \in OfCategory(category) :
                    (\A i \in 1..Len(r) : r[i] # ledger[k].data) =>
                       \A i \in 1..Len(r) :
                          ledger[k].data.timestamp <= r[i].timestamp ]_vars

\* C15: whatever malformed lines the ledger holds, get_logs_by_session returns
\* every well-formed record of the session and get_recent_logs returns as many
\* well-formed matching records as the limit allows
C15_MalformedSkipped ==
    [][ /\ BySessionStep =>
              \A k \in OfSession(ret'[1].arg[1]) :
                 \E i \in 1..Len(ret'[1].value) :
                    ret'[1].value[i] = ledger[k].data
        /\ RecentStep =>
              Len(ret'[1].value) =
                 Min(ret'[1].arg[1], Cardinality(OfCategory(ret'[1].arg[2]))) ]_vars

\* a step that constructs the collector, that is a call of one of the three
\* collections, of collect_boot_events, of get_bcd_error_events
ConstructStep == collector[1] = None /\ collector'[1] # None
CollectionStep ==
    /\ collector[1] # None
    /\ ret[1].op \notin {"collect", "bcd_errors", "system_boots"}
    /\ ret'[1].op \in {"collect", "bcd_errors", "system_boots"}
CollectStep == CollectionStep /\ ret'[1].op = "collect"
BcdErrorsStep == CollectionStep /\ ret'[1].op = "bcd_errors"

\* C16: the construction of the collector runs the probe once, a probe that
\* fails, times out or returns a nonzero status leaves has_permission false,
\* has_permission does not change while the collector lives, and without
\* permission every collection returns nothing and runs no command
C16_NoPermissionNoQuery ==
    [][ /\ ConstructStep =>
              /\ Len(ret'[1].commands) = 1
              /\ ret'[1].commands[1].result.status # "ok"
                    => ~collector'[1][1].has_permission
        /\ (collector[1] # None /\ collector'[1] # None) =>
              collector'[1][1].has_permission = collector[1][1].has_permission
        /\ (CollectionStep /\ ~collector[1][1].has_permission) =>
              /\ ret'[1].value = <<>>
              /\ ret'[1].commands = <<>> ]_vars

\* C16 happens: the probe failed at construction, and a later collection of
\* system-boot events returned nothing and ran no command
C16_Witness ==
    /\ collector[1] # None /\ ~collector[1][1].has_permission
    /\ ret[1].op = "system_boots"
    /\ ret[1].value = <<>> /\ ret[1].commands = <<>>

\* the entries a command that was run gave: those of its output when its
\* status is 0
EntriesOf(command, now) ==
    SelectSeq(query_log(command.log_name, command.result, now),
              LAMBDA e : e # PyNone)
\* how many times e occurs in a sequence
Occurrences(e, events) ==
    Cardinality({ i \in 1..Len(events) : events[i] = e })

\* C17: collect_boot_events(since, max) asks the System log for max events
\* and the Application log for max \div 2, and returns the entries of the two
\* answers whose timestamp is at least since (when since is given), in
\* descending order of timestamp, cut to the max most recent ones
C17_MergedSortedTruncated ==
    [][ (CollectStep /\ collector[1][1].has_permission) =>
          LET r == ret'[1].value
              since == ret'[1].arg[1]
              max == ret'[1].arg[2]
              commands == ret'[1].commands
              merged == EntriesOf(commands[1], ret'[1].arg[3])
                        \o EntriesOf(commands[2], ret'[1].arg[3])
              kept == SelectSeq(merged,
                                LAMBDA e : since # None => e.timestamp >= since[1])
          IN  /\ commands[1].log_name = "System" /\ commands[1].count = max
              /\ commands[2].log_name = "Application"
              /\ commands[2].count = max \div 2
              /\ Len(r) = Min(max, Len(kept))
              /\ \A i \in 1..Len(r) : Occurrences(r[i], r) <= Occurrences(r[i], kept)
              /\ \A i, j \in 1..Len(r) : i < j => r[i].timestamp >= r[j].timestamp
              /\ \A k \in 1..Len(kept) :
                    Occurrences(kept[k], r) < Occurrences(kept[k], kept) =>
                       \A i \in 1..Len(r) : kept[k].timestamp <= r[i].timestamp ]_vars

FromOutput(e, output) ==
    \A key \in DOMAIN e.raw_data :
       \E k \in 1..Len(output) :
          /\ output[k].kind = "pair"
          /\ output[k].key = key /\ output[k].value = e.raw_data[key]

StartsOf(output) ==
    { a \in 1..Len(output) :
        output[a].kind # "blank" /\ (a = 1 \/ output[a - 1].kind = "blank") }
EndOf(output, a) ==
    CHOOSE b \in a..Len(output) :
        /\ \A k \in a..b : output[k].kind # "blank"
        /\ b = Len(output) \/ output[b + 1].kind = "blank"
\* the lines of the key: value pairs of the paragraph that starts at line a
PairsOf(output, a) ==
    { k \in a..EndOf(output, a) : output[k].kind = "pair" }
\* the paragraphs with at least one key: value pair, and the i-th of them
Keyed(output) == { a \in StartsOf(output) : PairsOf(output, a) # {} }
NthKeyed(output, i) ==
    CHOOSE a \in Keyed(output) :
        Cardinality({ b \in Keyed(output) : b < a }) = i - 1
\* the paragraph has the key; the value the paragraph gives to the key
HasKey(output, a, key) ==
    \E k \in PairsOf(output, a) : output[k].key = key
ValueOf(output, a, key) ==
    output[CHOOSE k \in PairsOf(output, a) : output[k].key = key].value
\* the paragraph can be made an entry: its identifier, if any, is a number
Parsable(output, a) ==
    HasKey(output, a, "Event ID") =>
        ValueOf(output, a, "Event ID") \in {"0", "12", "41", "6005"}
\* the outputs of the commands of a call that returned status 0
OkOutputs(commands) ==
    { commands[i].result.stdout :
        i \in { j \in 1..Len(commands) : commands[j].result.status = "ok" } }

\* C19: when both queries of a collect_boot_events call without a since
\* timestamp succeed, the call returns as many entries as the outputs have
\* paragraphs that can be made entries (up to max), whatever paragraphs that
\* cannot be parsed are among them
C19_BadParagraphSkipped ==
    [][ (/\ CollectStep /\ collector[1][1].has_permission
         /\ ret'[1].arg[1] = None
         /\ \A i \in 1..2 : ret'[1].commands[i].result.status = "ok") =>
          LET system == ret'[1].commands[1].result.stdout
              application == ret'[1].commands[2].result.stdout
              good(output) ==
                  Cardinality({ a \in Keyed(output) : Parsable(output, a) })
          IN  Len(ret'[1].value) =
                 Min(ret'[1].arg[2], good(system) + good(application)) ]_vars

\* the element is an entry with the identifier, level, source and message of
\* the paragraph that starts at line a (or the defaults of the log log_name)
\* and with all the key/value pairs of the paragraph as raw fields
EntryOfParagraph(e, output, a, log_name) ==
    /\ e # PyNone
    /\ e.event_id = IF HasKey(output, a, "Event ID")
                    THEN Numerals[ValueOf(output, a, "Event ID")] ELSE 0
    /\ e.level = IF HasKey(output, a, "Level")
                 THEN ValueOf(output, a, "Level") ELSE "Information"
    /\ e.source = IF HasKey(output, a, "Source")
                  THEN ValueOf(output, a, "Source") ELSE log_name
    /\ e.message = IF HasKey(output, a, "Description")
                   THEN ValueOf(output, a, "Description") ELSE "No description"
    /\ DOMAIN e.raw_data = { output[k].key : k \in PairsOf(output, a) }
    /\ \A k \in PairsOf(output, a) : e.raw_data[output[k].key] = output[k].value

\* a successful call of get_bcd_error_events, which returns what the parser
\* made of the output of its command
ParseStep ==
    /\ BcdErrorsStep /\ collector[1][1].has_permission
    /\ ret'[1].commands[1].result.status = "ok"

DiagnosedOnlyOnMismatch(s) ==
    s.diagnosis # <<>> => s.boot_match_status = "MISMATCH"

\* C30: no session, in memory or persisted, has a diagnosis together with the
\* status MATCH or UNKNOWN
C30_DiagnosisOnlyOnMismatch ==
    /\ \A i \in 1..Len(Stored) : DiagnosedOnlyOnMismatch(Stored[i])
    /\ \A p \in Procs :
          /\ \A i \in 1..Len(sessions[p]) : DiagnosedOnlyOnMismatch(sessions[p][i])
          /\ current_session[p] # None
                => DiagnosedOnlyOnMismatch(current_session[p][1].obj)

\* C29: whenever the persisted marker holds boot timestamp T, the last session
\* of the persisted store is the session of T
C29_MarkerHasSession ==
    Marker # None =>
        /\ Stored # <<>>
        /\ Last(Stored).boot_timestamp = Marker[1]

\* the persisted store holds a session of boot timestamp t
Persisted(t) == \E i \in 1..Len(Stored) : Stored[i].boot_timestamp = t

\* C27: a persisted session is still persisted after every step, unless the
\* step wrote a store of MAX_SESSIONS sessions (an eviction)
C27_LeavesOnlyByEviction ==
    [][ \A t \in BootTimes :
            Persisted(t) => (Persisted(t)' \/ Len(Stored') = MAX_SESSIONS) ]_vars

\* C22: every session in the memory of a running process is equal, field by
\* field, to its serialized form deserialized again, every persisted record is
\* reproduced by deserializing and serializing it, and a process start that
\* detects no new boot has in memory exactly the sessions of the persisted store
C22_RoundTrip ==
    /\ [](\A i \in 1..Len(sessions[1]) :
             from_dict(to_dict(sessions[1][i])) = sessions[1][i])
    /\ [](\A i \in 1..Len(Stored) : to_dict(from_dict(Stored[i])) = Stored[i])
    /\ [][ (StartStep /\ ~ret'[1].isNew) =>
              /\ SessionDicts(sessions'[1]) = Stored
              /\ Len(sessions'[1]) = Len(Stored)
              /\ current_session'[1] # None => Active' = from_dict(Last(Stored)) ]_vars

\* a process restarted in the same boot holds a session that has an operation,
\* an event, a diagnosis and a status that its two entries alone would not give
C22_Witness ==
    /\ running[1] /\ ret[1].op = "start" /\ ~ret[1].isNew
    /\ current_session[1] # None
    /\ Active.previous_operations # <<>>
    /\ Active.event_logs # <<>>
    /\ Active.diagnosis # <<>>
    /\ Active.boot_match_status #
          BootSessionInit(Active.session_id, Active.boot_timestamp, <<>>,
                          Active.actual_boot_entry,
                          Active.expected_boot_entry).boot_match_status

\* process 1 calls save_events_for_session in this step
SaveEventsStep == ret'[1].op = "save_events" /\ event_files' # event_files
\* process 1 calls load_events_for_session in this step
LoadEventsStep == ret'[1].op = "load_events"
\* the events the file of session_id holds
EventsOf(files, session_id) ==
    LET file == files[FileOf(files, session_id)]
    IN  [ k \in 1..Len(file.events) |-> entry_from_dict(file.events[k]) ]

\* C21: after a save at most 5 snapshot files remain, those of the 5 sessions
\* saved last, the one just saved among them with the events just saved; a load
\* returns the events last saved for a session whose file is retained and the
\* empty sequence for a session without a file
C21_FiveLastSaved ==
    [][ /\ SaveEventsStep =>
              /\ Len(event_files') <= 5
              /\ event_files' =
                    LastN(Written(event_files, ret'[1].arg[1], ret'[1].arg[2],
                                  clock, "ok"), 5)
              /\ Last(event_files').session_id = ret'[1].arg[1]
              /\ EventsOf(event_files', ret'[1].arg[1]) = ret'[1].arg[2]
        /\ LoadEventsStep =>
              ret'[1].value =
                 IF FileOf(event_files, ret'[1].arg[1]) = 0 THEN <<>>
                 ELSE EventsOf(event_files, ret'[1].arg[1]) ]_vars

\* C24: an operation that recordIntent stores and persists has a timestamp that
\* is not later than the time of the call
C24_StampNotAfterPersist ==
    [][ (RecordStep /\ ret'[1].ok) =>
            /\ Last(Last(Stored').previous_operations) = ret'[1].arg[1]
            /\ Last(Last(Stored').previous_operations).timestamp <= clock ]_vars

\* C25: a process holds at most one active session, and the active session is
\* the last element of the session store, in memory (the same object) and
\* persisted, and no session of the store was detected in a later boot
C25_ActiveIsLast ==
    \A p \in Procs :
        /\ Len(current_session[p]) <= 1
        /\ (running[p] /\ HasCurrent(p)) =>
              /\ sessions[p] # <<>>
              /\ CurrentIdx(p) = Len(sessions[p])
              /\ Last(sessions[p]) = Current(p)
              /\ Stored # <<>> /\ Last(Stored) = to_dict(Current(p))
              /\ \A i \in 1..Len(sessions[p]) :
                    sessions[p][i].boot_timestamp <= Current(p).boot_timestamp

\* the sixth session was detected, the oldest one evicted, and the active
\* session was changed by a call afterwards
C25_Witness ==
    /\ running[1] /\ HasCurrent(1)
    /\ Len(sessions[1]) = MAX_SESSIONS
    /\ sessions[1][1].boot_timestamp > 1
    /\ ret[1].op \in {"record", "resolve", "event"} /\ ret[1].ok
    /\ ~Untouched(1)

\* process 1 calls recordIntent, resolveOutcome or the event attachment
ChangeStep == running[1] /\ ret'[1].op \in {"record", "resolve", "event"}

\* C26: a call of recordIntent, resolveOutcome or the event attachment keeps
\* every session before the last one as it was, in memory and persisted, and
\* neither store gains or loses a session
C26_OnlyActiveChanges ==
    [][ ChangeStep =>
            /\ Len(sessions'[1]) = Len(sessions[1])
            /\ \A i \in 1..(Len(sessions[1]) - 1) : sessions'[1][i] = sessions[1][i]
            /\ Len(Stored') = Len(Stored)
            /\ \A i \in 1..(Len(Stored) - 1) : Stored'[i] = Stored[i] ]_vars

\* a call has changed the active session while the store holds an earlier
\* session that a call had changed in its own boot
C26_Witness ==
    /\ running[1] /\ HasCurrent(1)
    /\ ret[1].op \in {"record", "resolve", "event"} /\ ret[1].ok
    /\ ~Untouched(1)
    /\ Len(sessions[1]) >= 2 /\ Len(Stored) >= 2
    /\ Stored[1] # to_dict(BootSessionInit(Stored[1].session_id,
                                           Stored[1].boot_timestamp, <<>>, Null, Null))

\* process q makes a call that saves the store in this step
SavingStep(q) ==
    /\ running[q] /\ HasCurrent(q)
    /\ ret'[q].op \in {"record", "resolve"} /\ ret'[q].ok
    /\ (ret'[q] # ret[q] \/ sessions'[q] # sessions[q])
\* operation_data is a pending operation of some persisted session
InStore(operation_data) ==
    \E i \in 1..Len(Stored) : \E k \in 1..Len(Stored[i].previous_operations) :
        Stored[i].previous_operations[k] = operation_data

\* every operation whose recordIntent returned success last in its process is
\* a pending operation of a persisted session
RecordedIsPersisted ==
    \A p \in Procs :
        (running[p] /\ ret[p].op = "record" /\ ret[p].ok) => InStore(ret[p].arg[1])

\* C28: a call that saves leaves the persisted store equal to the calling
\* process's own copy of the sessions, whatever the other process had persisted
C28_LastWriterWins ==
    [][ \A q \in Procs :
            SavingStep(q) => Stored' = SessionDicts(sessions'[q]) ]_vars

\* the lost update: recordIntent of process 1 returned success and the
\* operation is in its active session, process 2 has saved its own copy since,
\* and the operation is in no persisted session
C28_Witness ==
    /\ running[1] /\ ret[1].op = "record" /\ ret[1].ok
    /\ running[2] /\ ret[2].op \in {"record", "resolve"} /\ ret[2].ok
    /\ \E k \in 1..Len(Current(1).previous_operations) :
          Current(1).previous_operations[k] = ret[1].arg[1]
    /\ Stored = SessionDicts(sessions[2])
    /\ ~RecordedIsPersisted

\* C23: no call ends with an exception reaching its caller
C23_NothingPropagates == \A p \in Procs : ~Propagated(p)

====
